---- MODULE Spec2Model ----
(***************************************************************************)
(* r.in.usgs: one run of main() followed by the atexit cleanup().          *)
(*                                                                         *)
(* A file path is a record [stem, ext] inside the single output directory  *)
(* (os.path.join(work_dir, name) is the name itself).  A download URL is   *)
(* the sequence of its segments around product_url_split; the last         *)
(* segment is the file name.  A title and the subset filter are sequences  *)
(* of characters.  The external commands (urlopen, ZipFile, r.import,      *)
(* r.patch, g.rename, g.remove, r.colors) are recorded, in the order they  *)
(* are issued, in the history variable calls; their outcomes are chosen    *)
(* nondeterministically.  The model starts after the option parser has     *)
(* bound the options (the output name is taken as bound).                  *)
(***************************************************************************)
EXTENDS Integers, Sequences, FiniteSets, TLC

VARIABLES
    gui_product,            \* options['product']
    gui_subset,             \* nlcd subset filter; <<>> is None
    gui_i_flag,             \* flags['i']
    gui_k_flag,             \* flags['k']
    gui_resampling_method,  \* options['resampling_method'] after lines 274-275
    product_resolution,     \* TRUE: resolved from the table; FALSE: TypeError
    files,                  \* paths existing in the output directory
    getsize,                \* byte size of each local file (0 when absent)
    rasters,                \* raster layers of the GRASS workspace
    return_JSON,            \* parsed catalog response [total, items]
    pc,                     \* position of the run in main()
    outcome,                \* "running" until the run ends
    idx,                    \* index of the current loop
    tiles_needed_count,
    dwnld_url, dwnld_size, TNM_file_titles,
    exist_dwnld_url, exist_TNM_titles, exist_zip_list, exist_tile_list,
    file_download_count,
    total_size_str,
    cleanup_list,
    download_count,
    local_tile_path_list, local_zip_path_list, patch_names,
    extracted_tile,         \* Unbound until an archive member matched
    calls                   \* history of external calls and their results

vars == <<gui_product, gui_subset, gui_i_flag, gui_k_flag,
                   gui_resampling_method, product_resolution,
          files, getsize, rasters, return_JSON, pc, outcome, idx,
          tiles_needed_count, dwnld_url, dwnld_size, TNM_file_titles,
          exist_dwnld_url, exist_TNM_titles, exist_zip_list, exist_tile_list,
          file_download_count, total_size_str, cleanup_list, download_count,
          local_tile_path_list, local_zip_path_list, patch_names,
          extracted_tile, calls>>

(***************************************************************************)
(* Bounds and input sets                                                   *)
(***************************************************************************)
MaxItems == 2

Products == {"ned", "nlcd", "naip"}

Stems == {"x", "y"}

CatalogSizes == {999995, 1000006}

LocalSizes == {1000000, 1000001}

Titles == {<<"b", "a", "b">>, <<"b", "a">>}

Subsets == {<<"a", "b">>}

\* values of the option resampling_method tried
ResamplingMethods == {"default", "bicubic"}

Unbound == [stem |-> "?", ext |-> "?"]

gui_output_layer == "out"

(***************************************************************************)
(* usgs_product_dict                                                       *)
(***************************************************************************)
product_extension == [p \in Products |->
    CASE p = "ned" -> "img" [] p = "nlcd" -> "tif" [] OTHER -> "jp2"]

product_is_zip == [p \in Products |-> p \in {"ned", "nlcd"}]

product_interpolation == [p \in Products |-> IF p = "ned" THEN "bilinear" ELSE "nearest"]

size_diff_tolerance == 5

\* lines 274-275: 'default' becomes the product's interpolation
ResolveMethod(m, p) == IF m = "default" THEN product_interpolation[p] ELSE m

\* extension of the file a download URL of the product names
UrlExt(p) == IF product_is_zip[p] THEN "zip" ELSE product_extension[p]

Path(s, e) == [stem |-> s, ext |-> e]

UrlFiles(p) == {Path(s, UrlExt(p)) : s \in Stems}

TilePaths(p) == {Path(s, product_extension[p]) : s \in Stems}

URLs(p) == {<<"h1", Path("x", UrlExt(p))>>, <<"h2", Path("x", UrlExt(p))>>,
            <<"h1", Path("y", UrlExt(p))>>}

(***************************************************************************)
(* Pure helpers                                                            *)
(***************************************************************************)
Abs(n) == IF n < 0 THEN -n ELSE n

\* url.split(product_url_split)[-1]
FileName(url) == url[Len(url)]

\* os.path.splitext(os.path.basename(t))[0]
LayerName(t) == t.stem

\* variant: the filter is only looked for at the start of the title
In_prefix(sub, title) ==
    Len(sub) <= Len(title) /\ \A j \in 1..Len(sub) : title[j] = sub[j]

\* Python's  sub in title  on strings
In(sub, title) ==
    \E k \in 0..(Len(title) - Len(sub)) :
        \A j \in 1..Len(sub) : title[k + j] = sub[j]

\* the filter test of the classification loop: not gui_subset or gui_subset in title
PassesFilter(subset, title) == subset = <<>> \/ In(subset, title)

\* list.remove(x): drops the first occurrence
RemoveFirst(s, x) ==
    IF \E k \in 1..Len(s) : s[k] = x
    THEN LET k == CHOOSE k \in 1..Len(s) : s[k] = x /\ \A j \in 1..(k - 1) : s[j] # x
         IN  SubSeq(s, 1, k - 1) \o SubSeq(s, k + 1, Len(s))
    ELSE s

\* for x in xs: if x in s: s.remove(x)
RECURSIVE RemoveAll(_, _)
RemoveAll(s, xs) ==
    IF xs = <<>> THEN s ELSE RemoveAll(RemoveFirst(s, Head(xs)), Tail(xs))

RECURSIVE Sum(_)
Sum(s) == IF s = <<>> THEN 0 ELSE Head(s) + Sum(Tail(s))

\* len(str(n)) for n >= 0
RECURSIVE Digits(_)
Digits(n) == IF n < 10 THEN 1 ELSE 1 + Digits(n \div 10)

Range(s) == {s[k] : k \in 1..Len(s)}

\* total_size_str: the unit and the value in hundredths of it
SizeStr(unit, hundredths) == [unit |-> unit, hundredths |-> hundredths]

\* total_size_str before any assignment
UnboundStr == SizeStr("unbound", 0)

Call(op, arg) == [op |-> op, arg |-> arg]

\* sequences of length <= n over S without repetition
Injective(s) == \A j, k \in 1..Len(s) : j # k => s[j] # s[k]

SeqsUpTo(S, n) == UNION {[1..m -> S] : m \in 0..n}

\* titles matter to the subset filter only, which nlcd alone has
ProductTitles(p) == IF p = "nlcd" THEN Titles ELSE {<<"b", "a", "b">>}

Items(p) ==
    {it \in SeqsUpTo([title : ProductTitles(p), downloadURL : URLs(p), sizeInBytes : CatalogSizes],
                     MaxItems) :
        Injective([k \in 1..Len(it) |-> it[k].downloadURL])}

NoJSON == [total |-> -1, items |-> <<>>]

(***************************************************************************)
(* Initial state: options parsed, output directory as a previous run may   *)
(* have left it, nothing queried yet                                       *)
(***************************************************************************)
Init ==
    /\ gui_product \in Products
    /\ gui_subset \in (IF gui_product = "nlcd" THEN Subsets ELSE {<<>>})
    /\ gui_i_flag \in BOOLEAN
    /\ gui_k_flag \in BOOLEAN
    /\ gui_resampling_method \in {ResolveMethod(m, gui_product) : m \in ResamplingMethods}
    /\ product_resolution \in BOOLEAN
    /\ \E present \in SUBSET UrlFiles(gui_product) :
       \E tiles \in SUBSET {Path("x", product_extension[gui_product])} :
           /\ files = present \cup tiles
           /\ getsize \in [UrlFiles(gui_product) -> LocalSizes \cup {0}]
           /\ \A f \in UrlFiles(gui_product) : (getsize[f] = 0) <=> (f \notin files)
    /\ rasters = {}
    /\ return_JSON = NoJSON
    /\ pc = "query"
    /\ outcome = "running"
    /\ idx = 0
    /\ tiles_needed_count = 0
    /\ dwnld_url = <<>> /\ dwnld_size = <<>> /\ TNM_file_titles = <<>>
    /\ exist_dwnld_url = <<>> /\ exist_TNM_titles = <<>>
    /\ exist_zip_list = <<>> /\ exist_tile_list = <<>>
    /\ file_download_count = 0
    /\ total_size_str = UnboundStr
    /\ cleanup_list = <<>>
    /\ download_count = 0
    /\ local_tile_path_list = <<>> /\ local_zip_path_list = <<>> /\ patch_names = <<>>
    /\ extracted_tile = Unbound
    /\ calls = <<>>

(***************************************************************************)
(* Leaving main(): gscript.fatal and sys.exit raise SystemExit, an         *)
(* uncaught exception ends the script; atexit then runs cleanup()          *)
(***************************************************************************)
\* variant: a fatal error leaves the process without running the exit handler
Exit_skip(kind) ==
    pc' = (IF kind = "fatal" THEN "exited" ELSE "atexit") /\ outcome' = kind

Exit(kind) == pc' = "atexit" /\ outcome' = kind

\* position after the download loop, before lines 529-535
ToDownloadOrExisting(urls) ==
    IF urls = <<>> THEN pc' = "existing" /\ idx' = 0
    ELSE pc' = "download" /\ idx' = 1

\* the extraction loop runs for archived products; then the import loop
ToExtractOrImport(zips, tiles) ==
    IF product_is_zip[gui_product] /\ zips # <<>> THEN pc' = "extract" /\ idx' = 1
    ELSE IF tiles # <<>> THEN pc' = "import" /\ idx' = 1
    ELSE pc' = "assemble" /\ idx' = 0

(***************************************************************************)
(* Catalog query and parse                                                 *)
(***************************************************************************)
QueryVars == <<gui_product, gui_subset, gui_i_flag, gui_k_flag,
                   gui_resampling_method, product_resolution,
               files, getsize, rasters, tiles_needed_count, dwnld_url, dwnld_size,
               TNM_file_titles, exist_dwnld_url, exist_TNM_titles, exist_zip_list,
               exist_tile_list, file_download_count, total_size_str, cleanup_list,
               download_count, local_tile_path_list, local_zip_path_list,
               patch_names, extracted_tile>>

\* urlopen raises URLError, or json.load fails: fatal before anything is parsed
QueryFails ==
    /\ pc = "query"
    /\ calls' = Append(calls, Call("TNM_API", FALSE))
    /\ Exit("fatal")
    /\ UNCHANGED <<QueryVars, return_JSON, idx>>

\* variant: an empty result is not fatal, the run goes on after the loop
AfterParse_late(tile_API_count) ==
    IF tile_API_count > 0
    THEN pc' = "classify" /\ idx' = 1 /\ outcome' = outcome
    ELSE pc' = "check" /\ idx' = idx /\ outcome' = outcome

\* if tile_API_count > 0: the loop over the entries; elif tile_API_count == 0: fatal
AfterParse(tile_API_count) ==
    IF tile_API_count > 0
    THEN pc' = "classify" /\ idx' = 1 /\ outcome' = outcome
    ELSE Exit("fatal") /\ idx' = idx

\* the response is parsed; total == 0 is fatal, otherwise the entries are classified
Query ==
    /\ pc = "query"
    /\ \E items \in Items(gui_product) :
           return_JSON' = [total |-> Len(items), items |-> items]
    /\ calls' = Append(calls, Call("TNM_API", TRUE))
    /\ AfterParse(return_JSON'.total)
    /\ UNCHANGED QueryVars

(***************************************************************************)
(* Classification of one catalog entry                                     *)
(***************************************************************************)
\* variant: a difference of exactly the tolerance already counts as incomplete
IsStale_ge(existing_local_file_size, TNM_file_size) ==
    Abs(existing_local_file_size - TNM_file_size) >= size_diff_tolerance

\* the local copy is incomplete
IsStale(existing_local_file_size, TNM_file_size) ==
    Abs(existing_local_file_size - TNM_file_size) > size_diff_tolerance

\* variant: an incomplete local file is not put on the download lists
GoesDown_fresh(needed, file_exists, stale) == needed /\ ~file_exists

\* the branches of lines 370-407 that call down_list()
GoesDown(needed, file_exists, stale) == needed /\ (~file_exists \/ stale)

\* the branch that calls exist_list()
GoesExist(needed, file_exists, stale) == needed /\ file_exists /\ ~stale

\* variant: the loop stops one entry early
NextClassify_short ==
    IF idx >= Len(return_JSON.items) - 1
    THEN pc' = "check" /\ idx' = 0
    ELSE pc' = pc /\ idx' = idx + 1

\* for f in return_JSON['items']: the next entry, or on to line 414
NextClassify ==
    IF idx = Len(return_JSON.items)
    THEN pc' = "check" /\ idx' = 0
    ELSE pc' = pc /\ idx' = idx + 1

Classify ==
    /\ pc = "classify"
    /\ LET f == return_JSON.items[idx]
           TNM_file_title == f.title
           TNM_file_URL == f.downloadURL
           TNM_file_size == f.sizeInBytes
           local_file_path == FileName(TNM_file_URL)
           file_exists == local_file_path \in files
           stale == file_exists /\ IsStale(getsize[local_file_path], TNM_file_size)
           needed == PassesFilter(gui_subset, TNM_file_title)
           down == GoesDown(needed, file_exists, stale)
           exist == GoesExist(needed, file_exists, stale)
       IN  /\ cleanup_list' = IF stale THEN Append(cleanup_list, local_file_path)
                              ELSE cleanup_list
           /\ tiles_needed_count' = IF needed THEN tiles_needed_count + 1
                                    ELSE tiles_needed_count
           \* down_list()
           /\ dwnld_url' = IF down THEN Append(dwnld_url, TNM_file_URL) ELSE dwnld_url
           /\ dwnld_size' = IF down THEN Append(dwnld_size, TNM_file_size) ELSE dwnld_size
           /\ TNM_file_titles' = IF down THEN Append(TNM_file_titles, TNM_file_title)
                                 ELSE TNM_file_titles
           \* exist_list()
           /\ exist_TNM_titles' = IF exist THEN Append(exist_TNM_titles, TNM_file_title)
                                  ELSE exist_TNM_titles
           /\ exist_dwnld_url' = IF exist THEN Append(exist_dwnld_url, TNM_file_URL)
                                 ELSE exist_dwnld_url
           /\ exist_zip_list' = IF exist /\ product_is_zip[gui_product]
                                THEN Append(exist_zip_list, local_file_path)
                                ELSE exist_zip_list
           /\ exist_tile_list' = IF exist /\ ~product_is_zip[gui_product]
                                 THEN Append(exist_tile_list, local_file_path)
                                 ELSE exist_tile_list
    /\ NextClassify
    /\ UNCHANGED <<gui_product, gui_subset, gui_i_flag, gui_k_flag,
                   gui_resampling_method, product_resolution,
                   files, getsize, rasters, return_JSON, outcome, file_download_count,
                   total_size_str, download_count, local_tile_path_list,
                   local_zip_path_list, patch_names, extracted_tile, calls>>

(***************************************************************************)
(* After the loop: download count, list pruning, stale abort               *)
(***************************************************************************)
\* variant: a single incomplete file is tolerated
HasIncomplete_two(cl) == Len(cl) > 1

\* the test of line 431: if cleanup_list
HasIncomplete(cl) == cl # <<>>

FinishClassify ==
    /\ pc = "check"
    /\ file_download_count' = Len(dwnld_url)
    /\ TNM_file_titles' = RemoveAll(TNM_file_titles, exist_TNM_titles)
    /\ dwnld_url' = RemoveAll(dwnld_url, exist_dwnld_url)
    /\ IF HasIncomplete(cleanup_list)
       THEN Exit("fatal")
       ELSE pc' = "report" /\ outcome' = outcome
    /\ UNCHANGED <<gui_product, gui_subset, gui_i_flag, gui_k_flag,
                   gui_resampling_method, product_resolution,
                   files, getsize, rasters, return_JSON, idx, tiles_needed_count,
                   dwnld_size, exist_dwnld_url, exist_TNM_titles, exist_zip_list,
                   exist_tile_list, total_size_str, cleanup_list, download_count,
                   local_tile_path_list, local_zip_path_list, patch_names,
                   extracted_tile, calls>>

(***************************************************************************)
(* Report, info-only exit                                                  *)
(***************************************************************************)
\* "{0:.2f}".format(total_size * scale): the value in hundredths of the unit
Hundredths(total_size, unit_bytes) ==
    (total_size + unit_bytes \div 200) \div (unit_bytes \div 100)

\* variant: gigabytes only from eleven digits on
TotalSizeStr_gt10(sizes) ==
    IF sizes # <<>>
    THEN LET total_size == Sum(sizes)
             len_total_size == Digits(total_size)
         IN  IF len_total_size > 10
             THEN SizeStr("GB", Hundredths(total_size, 1000000000))
             ELSE IF 6 < len_total_size /\ len_total_size < 10
             THEN SizeStr("MB", Hundredths(total_size, 1000000))
             ELSE UnboundStr
    ELSE SizeStr("0", 0)

TotalSizeStr(sizes) ==
    IF sizes # <<>>
    THEN LET total_size == Sum(sizes)
             len_total_size == Digits(total_size)
         IN  IF len_total_size >= 10
             THEN SizeStr("GB", Hundredths(total_size, 1000000000))
             ELSE IF 6 < len_total_size /\ len_total_size < 10
             THEN SizeStr("MB", Hundredths(total_size, 1000000))
             ELSE UnboundStr
    ELSE SizeStr("0", 0)

Report ==
    /\ pc = "report"
    /\ total_size_str' = TotalSizeStr(dwnld_size)
    /\ IF file_download_count > 0 /\ total_size_str' = UnboundStr
       THEN \* UnboundLocalError while formatting data_info
            Exit("crash") /\ idx' = idx
       ELSE IF gui_i_flag
       THEN Exit("info") /\ idx' = idx
       ELSE ToDownloadOrExisting(dwnld_url) /\ outcome' = outcome
    /\ UNCHANGED <<gui_product, gui_subset, gui_i_flag, gui_k_flag,
                   gui_resampling_method, product_resolution,
                   files, getsize, rasters, return_JSON, tiles_needed_count, dwnld_url,
                   dwnld_size, TNM_file_titles, exist_dwnld_url, exist_TNM_titles,
                   exist_zip_list, exist_tile_list, file_download_count, cleanup_list,
                   download_count, local_tile_path_list, local_zip_path_list,
                   patch_names, extracted_tile, calls>>

(***************************************************************************)
(* Download loop: one URL of dwnld_url per step                            *)
(***************************************************************************)
DownloadVars == <<gui_product, gui_subset, gui_i_flag, gui_k_flag,
                   gui_resampling_method, product_resolution,
                  getsize, rasters, return_JSON, tiles_needed_count, dwnld_url,
                  dwnld_size, TNM_file_titles, exist_dwnld_url, exist_TNM_titles,
                  exist_zip_list, exist_tile_list, file_download_count, total_size_str,
                  patch_names, extracted_tile>>

NextDownload ==
    IF idx = Len(dwnld_url) THEN pc' = "existing" /\ idx' = 0
    ELSE pc' = pc /\ idx' = idx + 1

\* the file is fetched and written completely
DownloadOk ==
    /\ pc = "download"
    /\ LET url == dwnld_url[idx]
           local_file_path == FileName(url)
       IN  /\ calls' = Append(calls, Call("urlopen", [url |-> url, result |-> "ok"]))
           /\ files' = files \cup {local_file_path}
           /\ download_count' = download_count + 1
           /\ IF product_is_zip[gui_product]
              THEN /\ local_zip_path_list' = Append(local_zip_path_list, local_file_path)
                   /\ local_tile_path_list' = local_tile_path_list
              ELSE /\ local_tile_path_list' = Append(local_tile_path_list, local_file_path)
                   /\ local_zip_path_list' = local_zip_path_list
    /\ NextDownload
    /\ UNCHANGED <<DownloadVars, outcome, cleanup_list>>

\* urlopen raises urllib2.URLError: nothing was written
DownloadURLError ==
    /\ pc = "download"
    /\ calls' = Append(calls, Call("urlopen", [url |-> dwnld_url[idx], result |-> "URLError"]))
    /\ Exit("fatal")
    /\ UNCHANGED <<DownloadVars, files, idx, cleanup_list, download_count,
                   local_tile_path_list, local_zip_path_list>>

\* any other StandardError while fetching or writing; a partial file may be left
DownloadStandardError ==
    /\ pc = "download"
    /\ LET url == dwnld_url[idx]
           local_file_path == FileName(url)
       IN  /\ calls' = Append(calls, Call("urlopen", [url |-> url, result |-> "StandardError"]))
           /\ \E partial \in BOOLEAN :
                  files' = IF partial THEN files \cup {local_file_path} ELSE files
           /\ cleanup_list' = Append(cleanup_list, local_file_path)
    /\ IF download_count # 0
       THEN Exit("fatal") /\ idx' = idx
       ELSE NextDownload /\ outcome' = outcome
    /\ UNCHANGED <<DownloadVars, download_count, local_tile_path_list,
                   local_zip_path_list>>

(***************************************************************************)
(* Files already present are handed to extraction or import                *)
(***************************************************************************)
UseExisting ==
    /\ pc = "existing"
    /\ local_zip_path_list' = local_zip_path_list \o exist_zip_list
    /\ local_tile_path_list' = local_tile_path_list \o exist_tile_list
    /\ ToExtractOrImport(local_zip_path_list', local_tile_path_list')
    /\ UNCHANGED <<DownloadVars, files, outcome, cleanup_list, download_count, calls>>

(***************************************************************************)
(* Extraction loop: one archive of local_zip_path_list per step            *)
(***************************************************************************)
\* what read_zip.namelist() may return for archive z
\* the name of a second tile in the archive of tile s
SecondStem(s) == IF s = "x" THEN "x2" ELSE "y2"

MemberLists(z, ext) ==
    { <<Path(z.stem, "xml")>>,
      <<Path(z.stem, "xml"), Path(z.stem, ext)>>,
      <<Path(z.stem, ext), Path(SecondStem(z.stem), ext)>> }

\* the archive file is not rewritten during the extraction loop: opening the
\* same path again gives what it gave before
SameAsBefore(z, opened, members) ==
    \A j \in 1..Len(calls) :
        calls[j].op = "ZipFile" /\ calls[j].arg.zip = z =>
            calls[j].arg.opened = opened /\ calls[j].arg.members = members

Matching(members, ext) == SelectSeq(members, LAMBDA f : f.ext = ext)

\* extracted_tile after the for loop over namelist()
LastMatch(members, ext, before) ==
    LET m == Matching(members, ext) IN IF m = <<>> THEN before ELSE m[Len(m)]

NextExtract(tiles) ==
    IF idx = Len(local_zip_path_list)
    THEN IF tiles # <<>> THEN pc' = "import" /\ idx' = 1
         ELSE pc' = "assemble" /\ idx' = 0
    ELSE pc' = pc /\ idx' = idx + 1

ExtractVars == <<gui_product, gui_subset, gui_i_flag, gui_k_flag,
                   gui_resampling_method, product_resolution,
                 getsize, rasters, return_JSON, tiles_needed_count, dwnld_url,
                 dwnld_size, TNM_file_titles, exist_dwnld_url, exist_TNM_titles,
                 exist_zip_list, exist_tile_list, file_download_count, total_size_str,
                 download_count, local_zip_path_list, patch_names>>

\* the except clause of the extraction: cleanup_list.append(extracted_tile), fatal;
\* with extracted_tile still unbound the append itself raises
ExtractExcept(tile) ==
    IF tile = Unbound
    THEN cleanup_list' = cleanup_list /\ Exit("crash")
    ELSE cleanup_list' = Append(cleanup_list, tile) /\ Exit("fatal")

\* the archive opens and every matching member is extracted
ExtractArchive ==
    /\ pc = "extract"
    /\ LET z == local_zip_path_list[idx]
           ext == product_extension[gui_product]
       IN  \E members \in MemberLists(z, ext) :
           /\ SameAsBefore(z, TRUE, members)
           /\ calls' = Append(calls, Call("ZipFile", [zip |-> z, opened |-> TRUE,
                                                       members |-> members]))
           /\ files' = files \cup Range(Matching(members, ext))
           /\ extracted_tile' = LastMatch(members, ext, extracted_tile)
           /\ IF extracted_tile' = Unbound
              THEN \* os.path.exists(extracted_tile) raises, then the except clause
                   /\ ExtractExcept(extracted_tile')
                   /\ UNCHANGED <<local_tile_path_list, idx>>
              ELSE /\ IF extracted_tile' \in files'
                      THEN /\ local_tile_path_list' =
                                  Append(local_tile_path_list, extracted_tile')
                           /\ cleanup_list' = Append(cleanup_list, extracted_tile')
                      ELSE UNCHANGED <<local_tile_path_list, cleanup_list>>
                   /\ NextExtract(local_tile_path_list')
                   /\ outcome' = outcome
    /\ UNCHANGED ExtractVars

\* zipfile.ZipFile raises: the archive cannot be opened
ExtractBadZip ==
    /\ pc = "extract"
    /\ SameAsBefore(local_zip_path_list[idx], FALSE, <<>>)
    /\ calls' = Append(calls, Call("ZipFile", [zip |-> local_zip_path_list[idx],
                                                opened |-> FALSE, members |-> <<>>]))
    /\ ExtractExcept(extracted_tile)
    /\ UNCHANGED <<ExtractVars, files, idx, local_tile_path_list, extracted_tile>>

\* read_zip.extract raises on the first matching member, after a file of that
\* name already at the destination was removed
ExtractMemberFails ==
    /\ pc = "extract"
    /\ LET z == local_zip_path_list[idx]
           ext == product_extension[gui_product]
       IN  \E members \in MemberLists(z, ext) :
           /\ Matching(members, ext) # <<>>
           /\ SameAsBefore(z, TRUE, members)
           /\ calls' = Append(calls, Call("ZipFile", [zip |-> z, opened |-> TRUE,
                                                       members |-> members]))
           /\ extracted_tile' = Head(Matching(members, ext))
           /\ files' = files \ {extracted_tile'}
           /\ ExtractExcept(extracted_tile')
    /\ UNCHANGED <<ExtractVars, idx, local_tile_path_list>>

(***************************************************************************)
(* Import loop: one tile of local_tile_path_list per step                  *)
(***************************************************************************)
ImportVars == <<gui_product, gui_subset, gui_i_flag, gui_k_flag,
                   gui_resampling_method, product_resolution,
                files, getsize, return_JSON, tiles_needed_count, dwnld_url,
                dwnld_size, TNM_file_titles, exist_dwnld_url, exist_TNM_titles,
                exist_zip_list, exist_tile_list, file_download_count, total_size_str,
                download_count, local_tile_path_list, local_zip_path_list,
                extracted_tile>>

ImportCall(t, ok) ==
    Call("r.import", [input |-> t, output |-> LayerName(t),
                      resample |-> product_interpolation[gui_product], ok |-> ok])

ImportOk ==
    /\ pc = "import"
    /\ LET t == local_tile_path_list[idx]
       IN  /\ patch_names' = Append(patch_names, LayerName(t))
           /\ calls' = Append(calls, ImportCall(t, TRUE))
           /\ rasters' = rasters \cup {LayerName(t)}
           /\ cleanup_list' = IF ~gui_k_flag THEN Append(cleanup_list, t) ELSE cleanup_list
    /\ IF idx = Len(local_tile_path_list)
       THEN pc' = "assemble" /\ idx' = 0
       ELSE pc' = pc /\ idx' = idx + 1
    /\ UNCHANGED <<ImportVars, outcome>>

\* r.import raises CalledModuleError
ImportFails ==
    /\ pc = "import"
    /\ LET t == local_tile_path_list[idx]
       IN  /\ patch_names' = Append(patch_names, LayerName(t))
           /\ calls' = Append(calls, ImportCall(t, FALSE))
    /\ Exit("fatal")
    /\ UNCHANGED <<ImportVars, rasters, cleanup_list, idx>>

(***************************************************************************)
(* Count check, patch or rename, colour table                              *)
(***************************************************************************)
AssembleVars == <<gui_product, gui_subset, gui_i_flag, gui_k_flag,
                   gui_resampling_method, product_resolution,
                  files, getsize, return_JSON, idx, tiles_needed_count, dwnld_url,
                  dwnld_size, TNM_file_titles, exist_dwnld_url, exist_TNM_titles,
                  exist_zip_list, exist_tile_list, file_download_count, total_size_str,
                  cleanup_list, download_count, local_tile_path_list,
                  local_zip_path_list, patch_names, extracted_tile>>

\* lines 612-618 after a passed count check: r.colors for ned
Finish(cs, rs) ==
    IF gui_product = "ned"
    THEN \E ok \in BOOLEAN :
           /\ (gui_output_layer \notin rs) => ~ok
           /\ calls' = Append(cs, Call("r.colors", [map |-> gui_output_layer, ok |-> ok]))
           /\ rasters' = rs
           /\ Exit(IF ok THEN "success" ELSE "crash")
    ELSE calls' = cs /\ rasters' = rs /\ Exit("success")

PatchCall(ok) ==
    Call("r.patch", [input |-> patch_names, output |-> gui_output_layer,
                     region_res |-> product_resolution, ok |-> ok])

RenameCall(ok) ==
    Call("g.rename", [from |-> patch_names[1], to |-> gui_output_layer, ok |-> ok])

RemoveCall == Call("g.remove", [name |-> patch_names])

\* variant: fewer tiles than needed are accepted
CountsMatch_le(completed_tiles_count, needed) == completed_tiles_count <= needed

\* the count check of line 585
CountsMatch(completed_tiles_count, needed) == completed_tiles_count = needed

\* variant: two tiles are not yet patched
NeedsPatch_gt2(completed_tiles_count) == completed_tiles_count > 2

\* the routing test of line 586
NeedsPatch(completed_tiles_count) == completed_tiles_count > 1

Assemble ==
    /\ pc = "assemble"
    /\ LET completed_tiles_count == Len(local_tile_path_list)
       IN  IF CountsMatch(completed_tiles_count, tiles_needed_count)
           THEN IF NeedsPatch(completed_tiles_count)
                THEN \/ \* r.patch succeeds; intermediate layers removed unless -k
                        IF gui_k_flag
                        THEN Finish(Append(calls, PatchCall(TRUE)),
                                    rasters \cup {gui_output_layer})
                        ELSE Finish(Append(Append(calls, PatchCall(TRUE)), RemoveCall),
                                    (rasters \cup {gui_output_layer}) \ Range(patch_names))
                     \/ \* r.patch raises CalledModuleError
                        /\ calls' = Append(calls, PatchCall(FALSE))
                        /\ rasters' = rasters
                        /\ Exit("fatal")
                ELSE IF completed_tiles_count = 1
                THEN \/ Finish(Append(calls, RenameCall(TRUE)),
                               (rasters \ {patch_names[1]}) \cup {gui_output_layer})
                     \/ \* g.rename raises CalledModuleError, caught nowhere
                        /\ calls' = Append(calls, RenameCall(FALSE))
                        /\ rasters' = rasters
                        /\ Exit("crash")
                ELSE Finish(calls, rasters)
           ELSE /\ Exit("fatal")
                /\ UNCHANGED <<calls, rasters>>
    /\ UNCHANGED AssembleVars

(***************************************************************************)
(* atexit: cleanup()                                                       *)
(***************************************************************************)
\* variant: only the first registered path is removed
RemoveFiles_first(fs, cl) == IF cl = <<>> THEN fs ELSE fs \ {cl[1]}

\* for f in cleanup_list: if os.path.exists(f): gscript.try_remove(f)
RemoveFiles(fs, cl) == fs \ Range(cl)

cleanup ==
    /\ pc = "atexit"
    /\ files' = RemoveFiles(files, cleanup_list)
    /\ calls' = Append(calls, Call("cleanup", cleanup_list))
    /\ pc' = "exited"
    /\ UNCHANGED <<gui_product, gui_subset, gui_i_flag, gui_k_flag,
                   gui_resampling_method, product_resolution,
                   getsize, rasters, return_JSON, outcome, idx, tiles_needed_count,
                   dwnld_url, dwnld_size, TNM_file_titles, exist_dwnld_url,
                   exist_TNM_titles, exist_zip_list, exist_tile_list,
                   file_download_count, total_size_str, cleanup_list, download_count,
                   local_tile_path_list, local_zip_path_list, patch_names,
                   extracted_tile>>

Next ==
    \/ QueryFails
    \/ Query
    \/ Classify
    \/ FinishClassify
    \/ Report
    \/ DownloadOk
    \/ DownloadURLError
    \/ DownloadStandardError
    \/ UseExisting
    \/ ExtractArchive
    \/ ExtractBadZip
    \/ ExtractMemberFails
    \/ ImportOk
    \/ ImportFails
    \/ Assemble
    \/ cleanup

Spec == Init /\ [][Next]_vars

(***************************************************************************)
(* Vocabulary of the properties, stated on the catalog response, the       *)
(* initial local files (getsize) and the history of calls                  *)
(***************************************************************************)
Entries == 1..Len(return_JSON.items)

Entry(k) == return_JSON.items[k]

EntryPath(k) == Entry(k).downloadURL[Len(Entry(k).downloadURL)]

LocalExists(k) == getsize[EntryPath(k)] # 0

SizeDiff(k) ==
    LET d == getsize[EntryPath(k)] - Entry(k).sizeInBytes IN IF d < 0 THEN 0 - d ELSE d

EntryStale(k) == LocalExists(k) /\ SizeDiff(k) > 5

EntryWithinTolerance(k) == LocalExists(k) /\ SizeDiff(k) <= 5

FilterActive == gui_subset # <<>>

TitleContains(k) ==
    \E a \in 1..(Len(Entry(k).title) + 1) : \E b \in 0..Len(Entry(k).title) :
        SubSeq(Entry(k).title, a, b) = gui_subset

EntryNeeded(k) == FilterActive => TitleContains(k)

\* entry k has been through the classification loop
Classified(k) == pc # "query" /\ (pc = "classify" => idx > k)

ClassificationDone == pc \notin {"query", "classify"} /\ return_JSON.total > 0

Ended == pc \in {"atexit", "exited"}

CallsOf(ops) == SelectSeq(calls, LAMBDA c : c.op \in ops)

PipelineOps == {"urlopen", "ZipFile", "r.import", "g.rename", "r.patch"}

ImportedTiles == SelectSeq(calls, LAMBDA c : c.op = "r.import" /\ c.arg.ok)

ImportedCount == Len(ImportedTiles)

Downloaded(url) ==
    \E j \in 1..Len(calls) : calls[j].op = "urlopen" /\ calls[j].arg.url = url

InDownloadPlan(k) == Entry(k).downloadURL \in Range(dwnld_url)

InReuseSet(k) == Entry(k).downloadURL \in Range(exist_dwnld_url)

\* the lists the extraction and import loops read, once UseExisting has run
HandedOn(k) ==
    pc \in {"extract", "import", "assemble"} =>
        EntryPath(k) \in Range(IF product_is_zip[gui_product]
                               THEN local_zip_path_list ELSE local_tile_path_list)

(***************************************************************************)
(* C1 Stale abort.  If some catalog entry has a local file whose size      *)
(* differs from sizeInBytes by more than 5, the run never gets past the    *)
(* check after classification, it issues no download, extraction, import,  *)
(* rename or patch, it ends fatally, and the stale path is in cleanup_list *)
(* when it ends.                                                           *)
(***************************************************************************)
StaleAbort ==
    \A k \in Entries : EntryStale(k) =>
        /\ pc \in {"classify", "check", "atexit", "exited"}
        /\ CallsOf(PipelineOps) = <<>>
        /\ Ended => outcome = "fatal" /\ EntryPath(k) \in Range(cleanup_list)

\* a run aborted for a stale file although another entry was ready to download
StaleAbortWitness ==
    /\ pc = "exited" /\ outcome = "fatal"
    /\ \E k \in Entries : EntryStale(k)
    /\ \E k \in Entries : ~LocalExists(k) /\ InDownloadPlan(k)

(***************************************************************************)
(* C2 Reuse within tolerance, as claimed: every catalog entry whose local  *)
(* file exists with abs(localSize - catalogSize) <= 5 is in the reuse set, *)
(* not in the download plan, never downloaded, and its path is handed to   *)
(* extraction/import.                                                      *)
(***************************************************************************)
ReuseProps(k) ==
    /\ InReuseSet(k)
    /\ ~InDownloadPlan(k)
    /\ ~Downloaded(Entry(k).downloadURL)
    /\ HandedOn(k)

ReuseEveryEntry ==
    \A k \in Entries : Classified(k) /\ EntryWithinTolerance(k) => ReuseProps(k)

(***************************************************************************)
(* C2 amended: the same for every such entry that passes the subset filter *)
(* (every entry when no filter is active).                                 *)
(***************************************************************************)
ReuseWithinTolerance ==
    \A k \in Entries :
        Classified(k) /\ EntryNeeded(k) /\ EntryWithinTolerance(k) => ReuseProps(k)

\* an entry exactly 5 bytes off is reused under an active filter and handed on
ReuseWitness ==
    /\ pc \in {"extract", "import"}
    /\ FilterActive
    /\ \E k \in Entries : LocalExists(k) /\ SizeDiff(k) = 5 /\ TitleContains(k)
                          /\ InReuseSet(k)

(***************************************************************************)
(* C3 Subset filter.  A classified entry is in the download or the reuse   *)
(* set iff no filter is active or its title contains the filter as a       *)
(* literal substring, and tiles_needed_count counts exactly those entries. *)
(***************************************************************************)
SubsetFilter ==
    /\ \A k \in Entries : Classified(k) =>
           ((InDownloadPlan(k) \/ InReuseSet(k)) <=> EntryNeeded(k))
    /\ ClassificationDone =>
           tiles_needed_count = Cardinality({k \in Entries : EntryNeeded(k)})

\* an active filter has let one entry in and kept another out
SubsetFilterWitness ==
    /\ ClassificationDone /\ FilterActive
    /\ \E j, k \in Entries : TitleContains(j) /\ ~TitleContains(k)
    /\ tiles_needed_count = 1

(***************************************************************************)
(* C4 Filtered-out entries leave no trace, as claimed: after               *)
(* classification an entry whose title lacks the active filter is in none  *)
(* of the sets, and when every size-mismatched local file belongs to a     *)
(* filtered-out entry nothing is registered for cleanup (so no stale       *)
(* abort follows).                                                         *)
(***************************************************************************)
FilteredOutLeavesNoTrace ==
    ClassificationDone /\ FilterActive =>
        /\ \A k \in Entries : ~TitleContains(k) => ~InDownloadPlan(k) /\ ~InReuseSet(k)
        /\ (\A k \in Entries : EntryStale(k) => ~TitleContains(k)) => cleanup_list = <<>>

(***************************************************************************)
(* C5 No partial success, as claimed: a run that reaches the end of main() *)
(* without a fatal error has the output layer in the workspace, produced   *)
(* by exactly one g.rename or r.patch.                                     *)
(***************************************************************************)
NoPartialSuccess ==
    Ended /\ outcome = "success" =>
        /\ gui_output_layer \in rasters
        /\ Len(CallsOf({"g.rename", "r.patch"})) = 1

(***************************************************************************)
(* C6 Count invariant before assembly.  g.rename or r.patch has been       *)
(* invoked only if the number of successfully imported tiles equals        *)
(* tiles_needed_count; the step taken at the count check with differing    *)
(* counts ends the run fatally and invokes nothing.                        *)
(***************************************************************************)
CountInvariant ==
    /\ [](CallsOf({"g.rename", "r.patch"}) # <<>> => ImportedCount = tiles_needed_count)
    /\ [][pc = "assemble" /\ ImportedCount # tiles_needed_count =>
              pc' = "atexit" /\ outcome' = "fatal" /\ calls' = calls]_vars

\* the count check has failed after at least one successful import
CountMismatchWitness ==
    /\ pc = "atexit" /\ outcome = "fatal"
    /\ ImportedCount >= 1 /\ ImportedCount = Len(local_tile_path_list)
    /\ ImportedCount # tiles_needed_count

(***************************************************************************)
(* C7 Download failure aborts the run, as claimed: once a download has     *)
(* failed the run has ended fatally, nothing but cleanup() was called      *)
(* after it, and for a failure other than URLError the path of the partial *)
(* file is in cleanup_list.                                                *)
(***************************************************************************)
DownloadFailureAborts ==
    \A j \in 1..Len(calls) :
        calls[j].op = "urlopen" /\ calls[j].arg.result # "ok" =>
            /\ Ended /\ outcome = "fatal"
            /\ \A i \in (j + 1)..Len(calls) : calls[i].op = "cleanup"
            /\ calls[j].arg.result = "StandardError" =>
                   calls[j].arg.url[Len(calls[j].arg.url)] \in Range(cleanup_list)

(***************************************************************************)
(* C8 Extraction failure is fatal, as claimed: once an archive could not   *)
(* be opened or had no member with the product's extension, the run has    *)
(* ended abnormally, nothing but cleanup() was called after it, and no     *)
(* more tile paths are recorded than archives had a matching member.       *)
(***************************************************************************)
HasMember(c) ==
    c.arg.opened /\ \E m \in 1..Len(c.arg.members) :
                        c.arg.members[m].ext = product_extension[gui_product]

ExtractionFailureFatal ==
    /\ \A j \in 1..Len(calls) :
           calls[j].op = "ZipFile" /\ ~HasMember(calls[j]) =>
               /\ Ended /\ outcome \in {"fatal", "crash"}
               /\ \A i \in (j + 1)..Len(calls) : calls[i].op = "cleanup"
    /\ product_is_zip[gui_product] =>
           Len(local_tile_path_list) <=
               Len(SelectSeq(calls, LAMBDA c : c.op = "ZipFile" /\ HasMember(c)))

(***************************************************************************)
(* C9 Assembly routing.  The step taken at a passed count check invokes,   *)
(* for exactly one imported tile, g.rename of that tile's layer to the     *)
(* output name and no r.patch; for two or more, one r.patch of all         *)
(* imported layers into the output name and no g.rename, whether or not    *)
(* the resolution was resolved.  No run invokes more than one of them.     *)
(***************************************************************************)
ImportedLayers == [k \in 1..ImportedCount |-> ImportedTiles[k].arg.output]

AssemblyStep ==
    LET new == SubSeq(calls', Len(calls) + 1, Len(calls'))
        renames == SelectSeq(new, LAMBDA c : c.op = "g.rename")
        patches == SelectSeq(new, LAMBDA c : c.op = "r.patch")
    IN  pc = "assemble" /\ ImportedCount = tiles_needed_count =>
            /\ ImportedCount = 1 =>
                   /\ patches = <<>> /\ Len(renames) = 1
                   /\ renames[1].arg.from = ImportedLayers[1]
                   /\ renames[1].arg.to = gui_output_layer
            /\ ImportedCount >= 2 =>
                   /\ renames = <<>> /\ Len(patches) = 1
                   /\ patches[1].arg.input = ImportedLayers
                   /\ patches[1].arg.output = gui_output_layer

AssemblyRouting ==
    /\ [](Len(CallsOf({"g.rename", "r.patch"})) <= 1)
    /\ [][AssemblyStep]_vars

\* tiles were patched although the resolution could not be resolved
AssemblyRoutingWitness ==
    /\ pc = "exited" /\ outcome = "success" /\ ~product_resolution
    /\ \E j \in 1..Len(calls) : calls[j].op = "r.patch" /\ calls[j].arg.ok
                                /\ Len(calls[j].arg.input) >= 2

(***************************************************************************)
(* C10 Keep-files flag set, as claimed: after a successful run with -k     *)
(* and after cleanup() has run, every downloaded archive, every extracted  *)
(* tile and every imported source tile still exists and none of them is in *)
(* cleanup_list.                                                           *)
(***************************************************************************)
RunFiles ==
    {calls[j].arg.url[Len(calls[j].arg.url)] :
         j \in {i \in 1..Len(calls) : calls[i].op = "urlopen" /\ calls[i].arg.result = "ok"}}
    \cup UNION {{m \in Range(calls[j].arg.members) : m.ext = product_extension[gui_product]} :
                   j \in {i \in 1..Len(calls) : calls[i].op = "ZipFile"}}
    \cup {calls[j].arg.input : j \in {i \in 1..Len(calls) : calls[i].op = "r.import"}}

KeepFilesKeepsAll ==
    pc = "exited" /\ outcome = "success" /\ gui_k_flag =>
        \A f \in RunFiles : f \in files /\ f \notin Range(cleanup_list)

(***************************************************************************)
(* C11 Keep-files flag unset, as claimed: after a successful run without   *)
(* -k and after cleanup() has run, no archive downloaded by the run and no *)
(* tile extracted by it exists any more, and no per-tile layer is left in  *)
(* the workspace.                                                          *)
(***************************************************************************)
DownloadedArchives ==
    IF product_is_zip[gui_product]
    THEN {calls[j].arg.url[Len(calls[j].arg.url)] :
              j \in {i \in 1..Len(calls) : calls[i].op = "urlopen" /\ calls[i].arg.result = "ok"}}
    ELSE {}

ExtractedTiles ==
    UNION {{m \in Range(calls[j].arg.members) : m.ext = product_extension[gui_product]} :
               j \in {i \in 1..Len(calls) : calls[i].op = "ZipFile"}}

KeepFlagUnsetRemovesAll ==
    pc = "exited" /\ outcome = "success" /\ ~gui_k_flag =>
        /\ \A f \in DownloadedArchives \cup ExtractedTiles : f \notin files
        /\ \A j \in 1..ImportedCount : ImportedTiles[j].arg.output \notin rasters

(***************************************************************************)
(* C12 Cleanup registry discipline.  Every step leaves cleanup_list a      *)
(* prefix of its new value; cleanup() runs at most once and only as the    *)
(* last call of the process; whenever the run has ended, for whatever      *)
(* outcome, cleanup() is the step that can be taken; and once the process  *)
(* has exited cleanup() has run exactly once over the whole list.          *)
(***************************************************************************)
RegistryDiscipline ==
    /\ [][/\ Len(cleanup_list') >= Len(cleanup_list)
          /\ SubSeq(cleanup_list', 1, Len(cleanup_list)) = cleanup_list]_vars
    /\ [](pc # "exited" => CallsOf({"cleanup"}) = <<>>)
    /\ [](outcome # "running" <=> Ended)
    /\ [](pc = "atexit" => ENABLED cleanup)
    /\ [](pc = "exited" =>
            /\ Len(CallsOf({"cleanup"})) = 1
            /\ calls[Len(calls)] = [op |-> "cleanup", arg |-> cleanup_list]
            /\ Range(cleanup_list) \cap files = {})

\* a fatal abort after several registrations, drained at exit
RegistryWitness ==
    /\ pc = "exited" /\ outcome = "fatal"
    /\ Len(cleanup_list) >= 2
    /\ CallsOf({"urlopen"}) # <<>>

(***************************************************************************)
(* C13 Strict step ordering.  The classification loop is left only after   *)
(* the last catalog entry, towards the stale check, and never ends the     *)
(* run itself; no download, extraction, import, rename or patch is issued  *)
(* before the stale check has passed; in the history of calls no download  *)
(* follows an extraction, no extraction follows an import, and no import   *)
(* follows a rename or patch.                                              *)
(***************************************************************************)
StepRank(op) ==
    CASE op = "urlopen" -> 1
      [] op = "ZipFile" -> 2
      [] op = "r.import" -> 3
      [] op \in {"g.rename", "r.patch"} -> 4
      [] OTHER -> 0

StrictOrdering ==
    /\ [][pc = "classify" =>
              /\ outcome' = "running"
              /\ pc' # "classify" => pc' = "check" /\ idx = Len(return_JSON.items)]_vars
    /\ [](CallsOf(PipelineOps) # <<>> => pc \notin {"query", "classify", "check"})
    /\ [](\A i, j \in 1..Len(calls) :
              i < j /\ StepRank(calls[i].op) > 0 /\ StepRank(calls[j].op) > 0 =>
                  StepRank(calls[i].op) <= StepRank(calls[j].op))

\* a run that went through every stage with two tiles
StrictOrderingWitness ==
    /\ pc = "exited" /\ outcome = "success"
    /\ Len(CallsOf({"urlopen"})) >= 1 /\ Len(CallsOf({"ZipFile"})) >= 2
    /\ Len(CallsOf({"r.import"})) >= 2 /\ Len(CallsOf({"r.patch"})) = 1

(***************************************************************************)
(* C14 Exclusive classification, as claimed: after classification every    *)
(* entry that passes the filter is in exactly one of the download plan,    *)
(* the reuse set and the stale set (its mismatched path registered in      *)
(* cleanup_list); a stale entry is not in the download plan.               *)
(***************************************************************************)
InStaleSet(k) == EntryStale(k) /\ EntryPath(k) \in Range(cleanup_list)

ResamplingMethodUsed ==
    \A j \in 1..Len(calls) :
        calls[j].op = "r.import" => calls[j].arg.resample = gui_resampling_method

(***************************************************************************)
(* C17: when the catalog response has total == 0 the run ends fatally      *)
(* right after parsing: nothing was classified, no download, extraction,   *)
(* import, rename or merge is issued, the cleanup registry is empty, and   *)
(* no file or layer is created, changed or removed from then on.           *)
(***************************************************************************)
NothingClassified ==
    /\ tiles_needed_count = 0
    /\ dwnld_url = <<>> /\ dwnld_size = <<>> /\ TNM_file_titles = <<>>
    /\ exist_dwnld_url = <<>> /\ exist_TNM_titles = <<>>
    /\ exist_zip_list = <<>> /\ exist_tile_list = <<>>

EmptyCatalogFatal ==
    /\ [](return_JSON.total = 0 =>
              /\ Ended /\ outcome = "fatal"
              /\ NothingClassified
              /\ CallsOf(PipelineOps) = <<>>
              /\ cleanup_list = <<>>)
    /\ [][return_JSON'.total = 0 =>
              files' = files /\ getsize' = getsize /\ rasters' = rasters]_vars

\* an empty result ended the run and the files of an earlier run are still there
EmptyCatalogWitness ==
    /\ pc = "exited" /\ return_JSON.total = 0 /\ outcome = "fatal"
    /\ files # {}
    /\ CallsOf({"cleanup"}) # <<>>

(***************************************************************************)
(* The size report on its own: the run is taken up at line 435, with a     *)
(* download plan of up to MaxPlan entries of any of the sizes SizeInputs   *)
(* (none of them present locally), or with an empty plan next to one       *)
(* entry that is reused                                                    *)
(***************************************************************************)
MaxPlan == 2

SizeInputs == {1, 499999, 999999, 1000000, 499999999, 500000000}

SizeHosts == <<"h1", "h2", "h3", "h4">>

SizeTitle == <<"b", "a", "b">>

InitSize ==
    /\ gui_product = "ned"
    /\ gui_subset = <<>>
    /\ gui_i_flag \in BOOLEAN
    /\ gui_k_flag \in BOOLEAN
    /\ gui_resampling_method \in {ResolveMethod(m, gui_product) : m \in ResamplingMethods}
    /\ product_resolution \in BOOLEAN
    /\ \E sizes \in SeqsUpTo(SizeInputs, MaxPlan) :
         LET n == Len(sizes)
             reused == [title |-> SizeTitle,
                        downloadURL |-> <<"h1", Path("x", UrlExt(gui_product))>>,
                        sizeInBytes |-> 1000000]
             planned == [k \in 1..n |->
                            [title |-> SizeTitle,
                             downloadURL |-> <<SizeHosts[k], Path("y", UrlExt(gui_product))>>,
                             sizeInBytes |-> sizes[k]]]
         IN  /\ n <= Len(SizeHosts)
             /\ dwnld_size = sizes
             /\ dwnld_url = [k \in 1..n |-> planned[k].downloadURL]
             /\ TNM_file_titles = [k \in 1..n |-> planned[k].title]
             /\ file_download_count = n
             /\ IF n = 0
                THEN /\ return_JSON = [total |-> 1, items |-> <<reused>>]
                     /\ files = {FileName(reused.downloadURL)}
                     /\ getsize = [f \in UrlFiles(gui_product) |->
                                      IF f \in files THEN 1000000 ELSE 0]
                     /\ exist_dwnld_url = <<reused.downloadURL>>
                     /\ exist_TNM_titles = <<reused.title>>
                     /\ exist_zip_list = <<FileName(reused.downloadURL)>>
                     /\ tiles_needed_count = 1
                ELSE /\ return_JSON = [total |-> n, items |-> planned]
                     /\ files = {}
                     /\ getsize = [f \in UrlFiles(gui_product) |-> 0]
                     /\ exist_dwnld_url = <<>>
                     /\ exist_TNM_titles = <<>>
                     /\ exist_zip_list = <<>>
                     /\ tiles_needed_count = n
    /\ exist_tile_list = <<>>
    /\ rasters = {}
    /\ pc = "report"
    /\ outcome = "running"
    /\ idx = 0
    /\ total_size_str = UnboundStr
    /\ cleanup_list = <<>>
    /\ download_count = 0
    /\ local_tile_path_list = <<>> /\ local_zip_path_list = <<>> /\ patch_names = <<>>
    /\ extracted_tile = Unbound
    /\ calls = <<Call("TNM_API", TRUE)>>

NextSize == Report \/ cleanup

SpecSize == InitSize /\ [][NextSize]_vars

(***************************************************************************)
(* C18: once the report is made, a sum of planned bytes of 7 to 9 digits   *)
(* is given in MB (sum * 1e-6 to two decimals), a sum of 10 digits or more *)
(* in GB (sum * 1e-9 to two decimals), and an empty plan gives "0".        *)
(***************************************************************************)
SizeUnit ==
    pc # "report" =>
        LET total == Sum(dwnld_size)
            h == total_size_str.hundredths
        IN  /\ dwnld_size = <<>> => total_size_str = [unit |-> "0", hundredths |-> 0]
            /\ dwnld_size # <<>> /\ 1000000 <= total /\ total < 1000000000 =>
                   /\ total_size_str.unit = "MB"
                   /\ Abs(h * 10000 - total) <= 5000
            /\ dwnld_size # <<>> /\ total >= 1000000000 =>
                   /\ total_size_str.unit = "GB"
                   /\ Abs(h * 10000000 - total) <= 5000000

\* a plan of exactly 10^9 bytes was reported as 1.00 GB
SizeUnitWitness ==
    /\ pc = "exited" /\ outcome = "info"
    /\ Sum(dwnld_size) = 1000000000
    /\ total_size_str = [unit |-> "GB", hundredths |-> 100]

(***************************************************************************)
(* C16: in a run with the info-only flag no download, extraction, import,  *)
(* rename or merge is ever issued, the catalog is queried, and the run     *)
(* ends, unless by a fatal error, with the report made (the info exit).    *)
(***************************************************************************)
InfoOnly ==
    gui_i_flag =>
        /\ CallsOf(PipelineOps) = <<>>
        /\ Ended => /\ CallsOf({"TNM_API"}) # <<>>
                    /\ outcome # "fatal" => outcome = "info"

(***************************************************************************)
(* C19: a run that succeeds with no stale file and no failing step has     *)
(* made as many downloads as there are needed entries without a valid      *)
(* local copy, has imported as many tiles as there are needed entries,     *)
(* one for each of them, and has left the output layer under the           *)
(* requested name.                                                         *)
(***************************************************************************)
StepOk(c) ==
    CASE c.op = "urlopen" -> c.arg.result = "ok"
      [] c.op = "ZipFile" -> HasMember(c)
      [] c.op \in {"r.import", "g.rename", "r.patch", "r.colors"} -> c.arg.ok
      [] OTHER -> TRUE

NoFailingStep ==
    /\ \A k \in Entries : ~EntryStale(k)
    /\ \A j \in 1..Len(calls) : StepOk(calls[j])

NeededEntries == {k \in Entries : EntryNeeded(k)}

\* the tiles that came of the local file p of an entry
TilesOfPath(p) ==
    IF product_is_zip[gui_product]
    THEN UNION {{calls[j].arg.members[m] : m \in 1..Len(calls[j].arg.members)} :
                   j \in {i \in 1..Len(calls) :
                              calls[i].op = "ZipFile" /\ calls[i].arg.zip = p}}
    ELSE {p}

ImportsOfPath(p) ==
    Cardinality({j \in 1..ImportedCount : ImportedTiles[j].arg.input \in TilesOfPath(p)})

FailureFreeAccounting ==
    pc = "exited" /\ outcome = "success" /\ NoFailingStep =>
        /\ Len(CallsOf({"urlopen"})) =
               Cardinality({k \in NeededEntries : ~EntryWithinTolerance(k)})
        /\ tiles_needed_count = Cardinality(NeededEntries)
        /\ ImportedCount = tiles_needed_count
        /\ \A k \in NeededEntries :
               ImportsOfPath(EntryPath(k)) =
                   Cardinality({i \in NeededEntries : EntryPath(i) = EntryPath(k)})
        /\ gui_output_layer \in rasters

(***************************************************************************)
(* C20: when an archive with at least one member of the product's          *)
(* extension is extracted without error, exactly the first such member in  *)
(* archive order is written to the directory, and its path is the single   *)
(* tile path recorded for the archive.                                     *)
(***************************************************************************)
FirstMemberExtracted ==
    [][LET c == calls'[Len(calls')]
           m == SelectSeq(c.arg.members,
                          LAMBDA f : f.ext = product_extension[gui_product])
       IN  /\ pc = "extract" /\ Len(calls') = Len(calls) + 1
           /\ c.arg.opened /\ m # <<>>
           /\ outcome' = "running"
           => /\ files' = files \cup {m[1]}
              /\ local_tile_path_list' = Append(local_tile_path_list, m[1])]_vars

(***************************************************************************)
(* C21: when r.import fails for a tile the run ends fatally at that tile:  *)
(* no later tile is imported, neither g.rename nor r.patch is invoked, and *)
(* the path of the failing tile is in cleanup_list when the run ends, for  *)
(* every product and either value of the keep-files flag.                  *)
(***************************************************************************)
ImportFailureHandled ==
    \A j \in 1..Len(calls) :
        calls[j].op = "r.import" /\ ~calls[j].arg.ok =>
            /\ Ended /\ outcome = "fatal"
            /\ \A i \in (j + 1)..Len(calls) : calls[i].op = "cleanup"
            /\ calls[j].arg.input \in Range(cleanup_list)

(***************************************************************************)
(* The module run again.  The stale abort of line 432 tells the user to    *)
(* "Run module again": a new process is started with the same options in   *)
(* the directory and workspace as the run before left them; cleanup_list,  *)
(* a module-level list (line 140), and every local of main() start afresh. *)
(* The run before is kept in calls for reference.                          *)
(***************************************************************************)
MaxRuns == 2

Reruns == CallsOf({"rerun"})

Rerun ==
    /\ pc = "exited"
    /\ outcome = "fatal" /\ cleanup_list # <<>> /\ CallsOf(PipelineOps) = <<>>
    /\ Len(Reruns) < MaxRuns - 1
    /\ calls' = Append(calls, Call("rerun", [return_JSON |-> return_JSON,
                                              cleanup_list |-> cleanup_list]))
    /\ getsize' = [f \in DOMAIN getsize |-> IF f \in files THEN getsize[f] ELSE 0]
    /\ return_JSON' = NoJSON
    /\ pc' = "query"
    /\ outcome' = "running"
    /\ idx' = 0
    /\ tiles_needed_count' = 0
    /\ dwnld_url' = <<>> /\ dwnld_size' = <<>> /\ TNM_file_titles' = <<>>
    /\ exist_dwnld_url' = <<>> /\ exist_TNM_titles' = <<>>
    /\ exist_zip_list' = <<>> /\ exist_tile_list' = <<>>
    /\ file_download_count' = 0
    /\ total_size_str' = UnboundStr
    /\ cleanup_list' = <<>>
    /\ download_count' = 0
    /\ local_tile_path_list' = <<>> /\ local_zip_path_list' = <<>> /\ patch_names' = <<>>
    /\ extracted_tile' = Unbound
    /\ UNCHANGED <<gui_product, gui_subset, gui_i_flag, gui_k_flag,
                   gui_resampling_method, product_resolution, files, rasters>>

\* the catalog answers the query of the second run as it answered the first
QuerySame ==
    /\ pc = "query"
    /\ Reruns # <<>>
    /\ return_JSON' = Reruns[Len(Reruns)].arg.return_JSON
    /\ calls' = Append(calls, Call("TNM_API", TRUE))
    /\ AfterParse(return_JSON'.total)
    /\ UNCHANGED QueryVars

NextRerun ==
    \/ Reruns = <<>> /\ Query
    \/ QuerySame
    \/ QueryFails
    \/ Classify
    \/ FinishClassify
    \/ Report
    \/ DownloadOk
    \/ DownloadURLError
    \/ DownloadStandardError
    \/ UseExisting
    \/ ExtractArchive
    \/ ExtractBadZip
    \/ ExtractMemberFails
    \/ ImportOk
    \/ ImportFails
    \/ Assemble
    \/ cleanup
    \/ Rerun

SpecRerun == Init /\ [][NextRerun]_vars

(***************************************************************************)
(* C22: after a run that aborted for stale local files, those files are    *)
(* gone when the next run starts; given the same catalog response, the     *)
(* next run finds none of their entries stale, puts each of them that      *)
(* passes the filter on the download plan (never in the reuse set), and    *)
(* gets past the stale check to the report.                                *)
(***************************************************************************)
SecondRun == Reruns # <<>>

LastRerun == Reruns[Len(Reruns)]

PrevStale == Range(LastRerun.arg.cleanup_list)

SameResponse == return_JSON = LastRerun.arg.return_JSON

ReportDefined ==
    [][pc = "report" /\ dwnld_size # <<>> =>
           /\ total_size_str'.unit \in {"MB", "GB"}
           /\ \/ pc' = "atexit" /\ outcome' = "info" /\ gui_i_flag
              \/ pc' = "download" /\ outcome' = "running" /\ ~gui_i_flag]_vars

====
